---- MODULE Spec2Model ----
(***************************************************************************)
(* The S3-triggered Bedrock knowledge-base ingestion Lambda                *)
(* (infrastructure/modules/bedrock-knowledge-base/lambda/auto_ingestion.py)*)
(* as a state machine: handler invocations that walk a batch of S3 records *)
(* and call the bedrock-agent service (list_ingestion_jobs, then           *)
(* start_ingestion_job), and the service's ingestion jobs.                 *)
(***************************************************************************)
EXTENDS Integers, Sequences, FiniteSets, TLC

\* ------------------------------------------------------------------ bounds
\* Longest batch of records in one event.
MaxBatch == 2
\* Most ingestion jobs the service already holds when an invocation begins.
MaxInitJobs == 1
\* Longest batch of the first of two overlapping invocations.
MaxRaceBatch == 1

\* ------------------------------------------------------- program constants
\* maxResults=5 of the list_ingestion_jobs request.
MaxResults == 5
KnowledgeBaseId == "${knowledge_base_id}"
DataSourceId == "${data_source_id}"

\* ---------------------------------------------------------- Python values
None == [py |-> "None"]
EmptyDict == <<>>
\* A remote call that raises instead of returning a response.
ClientError == [exception |-> "ClientError"]
Raised(reply) == "exception" \in DOMAIN reply
\* dict.get(key, default)
Get(d, key, default) == IF key \in DOMAIN d THEN d[key] ELSE default
\* Truth value of None or of a dict, as `if response:` tests it.
Truthy(v) == v # None /\ DOMAIN v # {}

\* str.startswith(prefix), strings being sequences of characters; and a faulty
\* variant that compares the first six characters only ('Object').
StartsWithBroken(s, prefix) ==
    /\ Len(s) >= 6
    /\ \A k \in 1..6 : s[k] = prefix[k]
StartsWith(s, prefix) ==
    /\ Len(s) >= Len(prefix)
    /\ \A k \in 1..Len(prefix) : s[k] = prefix[k]

ObjectCreated == <<"O","b","j","e","c","t","C","r","e","a","t","e","d">>
ObjectRemoved == <<"O","b","j","e","c","t","R","e","m","o","v","e","d">>

\* ------------------------------------------------------------ input events
\* Event names S3 puts in a record.
ObjectCreatedPut == ObjectCreated \o <<":","P","u","t">>
ObjectRemovedDelete == ObjectRemoved \o <<":","D","e","l","e","t","e">>
ObjectRestorePost ==
    <<"O","b","j","e","c","t","R","e","s","t","o","r","e",":","P","o","s","t">>
EventNames == {ObjectCreatedPut, ObjectRemovedDelete, ObjectRestorePost}

S3Entity == [bucket |-> [name |-> "b"], object |-> [key |-> "docs/f.txt"]]
\* Records as S3 delivers them, and a record that lacks its 's3' entry.
WellFormedRecords == { [eventName |-> n, s3 |-> S3Entity] : n \in EventNames }
MalformedRecords == { [eventName |-> ObjectCreatedPut] }
Records == WellFormedRecords \cup MalformedRecords

SeqsUpTo(S, n) == UNION { [1..k -> S] : k \in 0..n }

\* An event without 'Records' (the s3:TestEvent S3 sends on configuration).
TestEvent == [Event |-> "s3:TestEvent"]
EventsUpTo(n) == { [Records |-> rs] : rs \in SeqsUpTo(Records, n) } \cup {TestEvent}
\* An invocation that is never made has this event.
NoEvent == [Records |-> <<>>]

\* ------------------------------------------------------ the remote service
JobStatuses == {"STARTING", "IN_PROGRESS", "COMPLETE", "FAILED"}

\* The service's jobs, newest first; a job's id is its ordinal of creation.
NumberJobs(statuses) ==
    [k \in 1..Len(statuses) |->
        [ingestionJobId |-> Len(statuses) + 1 - k, status |-> statuses[k]]]
InitJobs == { NumberJobs(s) : s \in SeqsUpTo(JobStatuses, MaxInitJobs) }

Take(s, n) == SubSeq(s, 1, IF Len(s) < n THEN Len(s) ELSE n)

ListRequest ==
    [op |-> "list_ingestion_jobs", knowledgeBaseId |-> KnowledgeBaseId,
     dataSourceId |-> DataSourceId, maxResults |-> MaxResults]
StartRequest ==
    [op |-> "start_ingestion_job", knowledgeBaseId |-> KnowledgeBaseId,
     dataSourceId |-> DataSourceId, description |-> "Auto-triggered ingestion"]

VARIABLES
    event,      \* event[p]: the event invocation p was called with
    pc,         \* pc[p]: "idle", "loop", "listing", "starting" or "done"
    idx,        \* idx[p]: the iteration of the for loop p is in
    status,     \* status[p]: the statusCode p returned, 0 before it returns
    pending,    \* remote calls in flight: [inv, idx, req]
    calls,      \* remote calls answered so far, in order: [inv, idx, req, reply, ret]
    jobs,       \* the service's ingestion jobs of the pair, newest first
    probe,      \* the argument of a function that a specification applies on its own
    verdict     \* <<>>, or <<the value that function returned for probe>>

vars == <<event, pc, idx, status, pending, calls, jobs, probe, verdict>>

Inv == {1, 2}

\* ------------------------------------------------------------- the handler
\* Line 31: the event names the handler acts on.
Qualifies(eventName) ==
    StartsWith(eventName, ObjectCreated) \/ StartsWith(eventName, ObjectRemoved)

\* Lines 24-26 read these keys of a record; a missing one raises KeyError. Before
\* it, a faulty variant that also wants the object key to be 'docs/f.txt'.
RecordOkDocsOnly(record) ==
    /\ "eventName" \in DOMAIN record
    /\ "s3" \in DOMAIN record
    /\ "bucket" \in DOMAIN record.s3
    /\ "name" \in DOMAIN record.s3.bucket
    /\ "object" \in DOMAIN record.s3
    /\ "key" \in DOMAIN record.s3.object
    /\ record.s3.object.key = "docs/f.txt"
RecordOk(record) ==
    /\ "eventName" \in DOMAIN record
    /\ "s3" \in DOMAIN record
    /\ "bucket" \in DOMAIN record.s3
    /\ "name" \in DOMAIN record.s3.bucket
    /\ "object" \in DOMAIN record.s3
    /\ "key" \in DOMAIN record.s3.object

\* Line 22, `for record in event['Records']`: the position in the input of the
\* record the i-th iteration handles; and a faulty variant that walks the batch
\* from its end.
PositionReversed(records, i) == Len(records) + 1 - i
Position(records, i) == i

HasRecords(p) == "Records" \in DOMAIN event[p]
InLoopBody(p) == HasRecords(p) /\ idx[p] <= Len(event[p].Records)
CurrentPosition(p) == Position(event[p].Records, idx[p])
CurrentRecord(p) == event[p].Records[CurrentPosition(p)]

\* Line 75: the statuses that count as a running job; and a faulty variant
\* that forgets 'STARTING'.
RunningStatusesNoStarting == {"IN_PROGRESS"}
RunningStatuses == {"STARTING", "IN_PROGRESS"}

\* Lines 74-79: the scan of the returned summaries, from the i-th on. A summary
\* without 'status', or a running one without 'ingestionJobId' (line 76), raises
\* KeyError, which line 81 catches: the function then returns False.
RECURSIVE ScanSummaries(_, _)
ScanSummaries(summaries, i) ==
    IF i > Len(summaries) THEN FALSE
    ELSE LET job == summaries[i] IN
         IF "status" \notin DOMAIN job THEN FALSE
         ELSE IF job.status \in RunningStatuses
              THEN "ingestionJobId" \in DOMAIN job
              ELSE ScanSummaries(summaries, i + 1)

\* Lines 64-83, given what list_ingestion_jobs answered. Before it, faulty
\* variants: one that looks at the newest summary only, one that fails closed,
\* one that never finds a job running, one that takes any listed job for a
\* running one.
is_ingestion_running_first_only(reply) ==
    /\ ~Raised(reply)
    /\ LET s == Get(reply, "ingestionJobSummaries", <<>>) IN
       /\ Len(s) > 0
       /\ "status" \in DOMAIN s[1]
       /\ s[1].status \in RunningStatuses
is_ingestion_running_fail_closed(reply) ==
    Raised(reply) \/ ScanSummaries(Get(reply, "ingestionJobSummaries", <<>>), 1)
is_ingestion_running_never(reply) == FALSE
is_ingestion_running_any_job(reply) ==
    /\ ~Raised(reply)
    /\ Len(Get(reply, "ingestionJobSummaries", <<>>)) > 0
is_ingestion_running(reply) ==
    IF Raised(reply) THEN FALSE
    ELSE ScanSummaries(Get(reply, "ingestionJobSummaries", <<>>), 1)

\* Lines 85-98, given what start_ingestion_job of the client answered; and a
\* faulty variant that hands the error back instead of None.
start_ingestion_job_reraise(reply) ==
    IF Raised(reply) THEN reply ELSE Get(reply, "ingestionJob", EmptyDict)
start_ingestion_job(reply) ==
    IF Raised(reply) THEN None ELSE Get(reply, "ingestionJob", EmptyDict)

\* Lines 54-62: an exception anywhere in the try block ends the invocation; and
\* a faulty variant whose try block is inside the loop, so that the record is
\* skipped; and one that lets the exception out of the handler, which then
\* returns no result.
HandlerExceptPropagates(p) ==
    /\ pc' = [pc EXCEPT ![p] = "done"]
    /\ UNCHANGED <<idx, status>>
HandlerExceptSkipsRecord(p) ==
    /\ idx' = [idx EXCEPT ![p] = idx[p] + 1]
    /\ pc' = [pc EXCEPT ![p] = IF "Records" \in DOMAIN event[p] THEN "loop" ELSE "done"]
    /\ status' = [status EXCEPT ![p] = IF "Records" \in DOMAIN event[p] THEN 0 ELSE 500]
HandlerExcept(p) ==
    /\ pc' = [pc EXCEPT ![p] = "done"]
    /\ status' = [status EXCEPT ![p] = 500]
    /\ UNCHANGED idx

\* The loop goes on to its next iteration; and, before it, a faulty variant that
\* handles a notification a second time once a remote call was made for it.
NextIterationRetries(p) ==
    LET made == Cardinality({ k \in DOMAIN calls :
                                calls[k].inv = p /\ calls[k].idx = CurrentPosition(p) })
    IN  /\ idx' = [idx EXCEPT ![p] = IF made \in {1, 2} THEN idx[p] ELSE idx[p] + 1]
        /\ pc' = [pc EXCEPT ![p] = "loop"]
        /\ UNCHANGED status
NextIteration(p) ==
    /\ idx' = [idx EXCEPT ![p] = idx[p] + 1]
    /\ pc' = [pc EXCEPT ![p] = "loop"]
    /\ UNCHANGED status

Message(p, req) == [inv |-> p, idx |-> CurrentPosition(p), req |-> req]
Answered(m, reply, ret) ==
    [inv |-> m.inv, idx |-> m.idx, req |-> m.req, reply |-> reply, ret |-> ret]

\* The calls of invocation p to `op` that are in flight.
InFlight(p, op) == { m \in pending : m.inv = p /\ m.req.op = op }

\* Lines 46-52: the loop is over.
Return200(p) ==
    /\ pc[p] = "loop"
    /\ HasRecords(p)
    /\ idx[p] > Len(event[p].Records)
    /\ pc' = [pc EXCEPT ![p] = "done"]
    /\ status' = [status EXCEPT ![p] = 200]
    /\ UNCHANGED <<event, idx, pending, calls, jobs, probe, verdict>>

\* Lines 22-26 raise KeyError: no 'Records', or a record lacking a key.
RaiseKeyError(p) ==
    /\ pc[p] = "loop"
    /\ \/ ~HasRecords(p)
       \/ InLoopBody(p) /\ ~RecordOk(CurrentRecord(p))
    /\ HandlerExcept(p)
    /\ UNCHANGED <<event, pending, calls, jobs, probe, verdict>>

\* Line 31 is false: the record is of no interest.
SkipRecord(p) ==
    /\ pc[p] = "loop"
    /\ InLoopBody(p)
    /\ RecordOk(CurrentRecord(p))
    /\ ~Qualifies(CurrentRecord(p).eventName)
    /\ NextIteration(p)
    /\ UNCHANGED <<event, pending, calls, jobs, probe, verdict>>

\* Lines 31-34 and 67-71: the list_ingestion_jobs request goes out.
CallListIngestionJobs(p) ==
    /\ pc[p] = "loop"
    /\ InLoopBody(p)
    /\ RecordOk(CurrentRecord(p))
    /\ Qualifies(CurrentRecord(p).eventName)
    /\ pending' = pending \cup {Message(p, ListRequest)}
    /\ pc' = [pc EXCEPT ![p] = "listing"]
    /\ UNCHANGED <<event, idx, status, calls, jobs, probe, verdict>>

\* What the service may answer to a list request: the newest maxResults jobs,
\* or an error. (Responses of other shapes reach the handler only through the
\* value of is_ingestion_running, which SpecGuard covers; they are False, as
\* for an error.)
ListReplies(req) ==
    { [ingestionJobSummaries |-> Take(jobs, req.maxResults)], ClientError }

\* Lines 67-83 and 34-39: the list request is answered, is_ingestion_running
\* returns, and the handler either skips the record or sends the start request.
ListAnswered(p, m, reply) ==
    LET running == is_ingestion_running(reply) IN
    /\ calls' = Append(calls, Answered(m, reply, running))
    /\ IF running
       THEN /\ pending' = pending \ {m}
            /\ NextIteration(p)
       ELSE /\ pending' = (pending \ {m}) \cup {Message(p, StartRequest)}
            /\ pc' = [pc EXCEPT ![p] = "starting"]
            /\ UNCHANGED <<idx, status>>
ListIngestionJobsReturns(p) ==
    /\ pc[p] = "listing"
    /\ \E m \in InFlight(p, "list_ingestion_jobs") : \E reply \in ListReplies(m.req) :
          ListAnswered(p, m, reply)
    /\ UNCHANGED <<event, jobs, probe, verdict>>

\* Responses to a list request that are not of the documented shape: one
\* without 'ingestionJobSummaries', and the newest maxResults jobs with the
\* 'status' or the 'ingestionJobId' of each summary missing.
MalformedListReplies(req) ==
    LET listed == Take(jobs, req.maxResults) IN
    { EmptyDict,
      [ingestionJobSummaries |->
          [k \in DOMAIN listed |-> [ingestionJobId |-> listed[k].ingestionJobId]]],
      [ingestionJobSummaries |->
          [k \in DOMAIN listed |-> [status |-> listed[k].status]]] }
\* Lines 67-83 and 34-39 when the list request is answered by such a response.
ListIngestionJobsReturnsMalformed(p) ==
    /\ pc[p] = "listing"
    /\ \E m \in InFlight(p, "list_ingestion_jobs") :
          \E reply \in MalformedListReplies(m.req) : ListAnswered(p, m, reply)
    /\ UNCHANGED <<event, jobs, probe, verdict>>

\* What the service may do with a start request: create the job and say so,
\* refuse with an error, answer without 'ingestionJob', or create the job and
\* answer without its 'ingestionJobId'.
NewJob == [ingestionJobId |-> Len(jobs) + 1, status |-> "STARTING"]
StartOutcomes ==
    { [created |-> TRUE, reply |-> [ingestionJob |-> NewJob]],
      [created |-> FALSE, reply |-> ClientError],
      [created |-> FALSE, reply |-> EmptyDict],
      [created |-> TRUE, reply |-> [ingestionJob |-> [status |-> "STARTING"]]] }

\* Lines 88-98 and 39-44: the start request is answered, start_ingestion_job
\* returns, and the handler logs the job id (KeyError without one) or the failure.
StartIngestionJobReturns(p) ==
    /\ pc[p] = "starting"
    /\ \E m \in InFlight(p, "start_ingestion_job"), o \in StartOutcomes :
        /\ jobs' = IF o.created THEN <<NewJob>> \o jobs ELSE jobs
        /\ pending' = pending \ {m}
        /\ LET response == start_ingestion_job(o.reply) IN
           /\ calls' = Append(calls, Answered(m, o.reply, response))
           /\ IF Truthy(response) /\ "ingestionJobId" \notin DOMAIN response
              THEN HandlerExcept(p)
              ELSE NextIteration(p)
    /\ UNCHANGED <<event, probe, verdict>>

\* The service works on its jobs. A job it works on ends COMPLETE; FAILED, which
\* the handler treats alike, occurs among the jobs already there at the start.
JobAdvances ==
    /\ \E k \in DOMAIN jobs :
        \/ /\ jobs[k].status = "STARTING"
           /\ jobs' = [jobs EXCEPT ![k].status = "IN_PROGRESS"]
        \/ /\ jobs[k].status = "IN_PROGRESS"
           /\ jobs' = [jobs EXCEPT ![k].status = "COMPLETE"]
    /\ UNCHANGED <<event, pc, idx, status, pending, calls, probe, verdict>>

\* ---------------------------------------------------------- specifications
NoProbe == ClientError

\* One invocation against the service.
Init ==
    /\ event \in [Inv -> EventsUpTo(MaxBatch)]
    /\ event[2] = NoEvent
    /\ pc = [p \in Inv |-> IF p = 1 THEN "loop" ELSE "idle"]
    /\ idx = [p \in Inv |-> 1]
    /\ status = [p \in Inv |-> 0]
    /\ pending = {}
    /\ calls = <<>>
    /\ jobs \in InitJobs
    /\ probe = NoProbe
    /\ verdict = <<>>

Next ==
    \/ \E p \in Inv :
        \/ Return200(p)
        \/ RaiseKeyError(p)
        \/ SkipRecord(p)
        \/ CallListIngestionJobs(p)
        \/ ListIngestionJobsReturns(p)
        \/ StartIngestionJobReturns(p)
    \/ JobAdvances

Spec == Init /\ [][Next]_vars

\* Two overlapping invocations against the service, which holds no job yet: one
\* with a batch of records as S3 delivers them, the other with a single such
\* record; either may be called with the test event instead. The records are
\* uploads (removals take the same path, line 31) and restores.
RaceRecords ==
    { [eventName |-> n, s3 |-> S3Entity] : n \in {ObjectCreatedPut, ObjectRestorePost} }
RaceEvents(n) ==
    { [Records |-> rs] : rs \in SeqsUpTo(RaceRecords, n) \ {<<>>} }
        \cup {TestEvent}
SingleRecordEvents ==
    { [Records |-> <<r>>] : r \in RaceRecords } \cup {TestEvent}

InitRace ==
    /\ event \in [Inv -> RaceEvents(MaxRaceBatch)]
    /\ event[2] \in SingleRecordEvents
    /\ pc = [p \in Inv |-> "loop"]
    /\ idx = [p \in Inv |-> 1]
    /\ status = [p \in Inv |-> 0]
    /\ pending = {}
    /\ calls = <<>>
    /\ jobs = <<>>
    /\ probe = NoProbe
    /\ verdict = <<>>

SpecRace == InitRace /\ [][Next]_vars

\* is_ingestion_running alone, on every reply list_ingestion_jobs can give to a
\* request for at most MaxResults jobs: an error, a response without
\* 'ingestionJobSummaries', or up to MaxResults summaries, each with any status
\* the service has, or lacking its 'status' or its 'ingestionJobId'.
ServiceStatuses ==
    {"STARTING", "IN_PROGRESS", "COMPLETE", "FAILED", "STOPPING", "STOPPED"}
SummaryShapes == ServiceStatuses \cup {"no status", "no id"}
MakeSummary(shape, id) ==
    CASE shape = "no status" -> [ingestionJobId |-> id]
      [] shape = "no id" -> [status |-> "IN_PROGRESS"]
      [] OTHER -> [ingestionJobId |-> id, status |-> shape]
ProbeReplies ==
    { [ingestionJobSummaries |->
          [k \in 1..Len(sh) |-> MakeSummary(sh[k], Len(sh) + 1 - k)]] :
      sh \in SeqsUpTo(SummaryShapes, MaxResults) }
        \cup {ClientError, EmptyDict}

InitGuard ==
    /\ event = [p \in Inv |-> NoEvent]
    /\ pc = [p \in Inv |-> "idle"]
    /\ idx = [p \in Inv |-> 1]
    /\ status = [p \in Inv |-> 0]
    /\ pending = {}
    /\ calls = <<>>
    /\ jobs = <<>>
    /\ probe \in ProbeReplies
    /\ verdict = <<>>

CheckIngestionRunning ==
    /\ verdict = <<>>
    /\ verdict' = <<is_ingestion_running(probe)>>
    /\ UNCHANGED <<event, pc, idx, status, pending, calls, jobs, probe>>

SpecGuard == InitGuard /\ [][CheckIngestionRunning]_vars

\* ------------------------------------------------- vocabulary of the claims
IsList(e) == e.req.op = "list_ingestion_jobs"
IsStart(e) == e.req.op = "start_ingestion_job"
\* The positions in `calls` of p's answered list and start calls.
ListsOf(p) == { k \in DOMAIN calls : calls[k].inv = p /\ IsList(calls[k]) }
StartsOf(p) == { k \in DOMAIN calls : calls[k].inv = p /\ IsStart(calls[k]) }
PendingStarts(p) == { m \in pending : m.inv = p /\ IsStart(m) }
\* The start requests p has issued so far, and those for its i-th notification.
StartCount(p) == Cardinality(StartsOf(p)) + Cardinality(PendingStarts(p))
StartCountFor(p, i) ==
    Cardinality({ k \in StartsOf(p) : calls[k].idx = i })
        + Cardinality({ m \in PendingStarts(p) : m.idx = i })

HasPrefix(s, prefix) ==
    Len(s) >= Len(prefix) /\ SubSeq(s, 1, Len(prefix)) = prefix
CreateOrDelete(name) == HasPrefix(name, ObjectCreated) \/ HasPrefix(name, ObjectRemoved)
WellFormed(record) == record \in WellFormedRecords
\* The positions of the create/delete notifications of p's batch.
Qualifying(p) ==
    IF "Records" \in DOMAIN event[p]
    THEN { i \in DOMAIN event[p].Records :
             WellFormed(event[p].Records[i])
             /\ CreateOrDelete(event[p].Records[i].eventName) }
    ELSE {}

\* A list reply that succeeded, with the summaries it returned.
Succeeded(reply) ==
    "exception" \notin DOMAIN reply /\ "ingestionJobSummaries" \in DOMAIN reply
ReportsActive(reply) ==
    /\ Succeeded(reply)
    /\ \E k \in DOMAIN reply.ingestionJobSummaries :
          reply.ingestionJobSummaries[k].status \in {"STARTING", "IN_PROGRESS"}
ReportsNoneActive(reply) ==
    /\ Succeeded(reply)
    /\ \A k \in DOMAIN reply.ingestionJobSummaries :
          reply.ingestionJobSummaries[k].status \notin {"STARTING", "IN_PROGRESS"}
\* A start reply that names a job but not its id.
LacksJobId(reply) ==
    /\ "ingestionJob" \in DOMAIN reply
    /\ reply.ingestionJob # <<>>
    /\ "ingestionJobId" \notin DOMAIN reply.ingestionJob

\* ------------------------------------------------------------------- C1
\* C1: while an invocation is at a notification whose event name starts with
\* neither 'ObjectCreated' nor 'ObjectRemoved', no step of that invocation
\* issues or completes a remote call or changes the service's jobs.
AtIgnoredNotification(p) ==
    /\ pc[p] \in {"loop", "listing", "starting"}
    /\ "Records" \in DOMAIN event[p]
    /\ idx[p] \in DOMAIN event[p].Records
    /\ ~CreateOrDelete(event[p].Records[idx[p]].eventName)
C1_IgnoredNotificationHasNoEffect ==
    [][\A p \in Inv :
          (AtIgnoredNotification(p) /\ (pc'[p] # pc[p] \/ idx'[p] # idx[p]))
              => (calls' = calls /\ pending' = pending /\ jobs' = jobs)]_vars
\* An invocation that returned 200, made remote calls, and made none for a
\* notification of the other kind in its batch.
C1_Witness ==
    /\ pc[1] = "done" /\ status[1] = 200 /\ calls # <<>>
    /\ \E i \in DOMAIN event[1].Records :
          /\ ~CreateOrDelete(event[1].Records[i].eventName)
          /\ \A k \in DOMAIN calls : calls[k].idx # i

\* ------------------------------------------------------------------- C2
\* C2: a list reply that reports a STARTING or IN_PROGRESS job is followed by no
\* start request for that notification, the invocation going on to the next
\* one; an invocation all of whose list replies report such a job issues no
\* start request at all.
C2_RunningJobBlocksStart ==
    \A p \in Inv :
        /\ \A k \in ListsOf(p) :
              ReportsActive(calls[k].reply)
                  => /\ StartCountFor(p, calls[k].idx) = 0
                     /\ idx[p] > calls[k].idx
        /\ (\A k \in ListsOf(p) : ReportsActive(calls[k].reply))
              => StartCount(p) = 0
\* Two notifications, both skipped because a job was reported running.
C2_Witness ==
    /\ pc[1] = "done" /\ status[1] = 200
    /\ Cardinality(ListsOf(1)) = 2
    /\ \A k \in ListsOf(1) : ReportsActive(calls[k].reply)
    /\ StartCount(1) = 0

\* ------------------------------------------------------------------- C3
\* C3: a list reply that reports no STARTING or IN_PROGRESS job (or no job) is
\* followed by exactly one start request for that notification; an invocation
\* that returned 200 and got only such list replies issued as many start
\* requests as its batch has create/delete notifications; and the batch of one
\* 'ObjectCreated:Put' record with an empty job list returns 200 after exactly
\* one start request, for the configured knowledge base and data source.
C3_IdleServiceStartsOncePerNotification ==
    \A p \in Inv :
        /\ \A k \in ListsOf(p) :
              ReportsNoneActive(calls[k].reply)
                  => StartCountFor(p, calls[k].idx) = 1
        /\ ( /\ pc[p] = "done" /\ status[p] = 200
             /\ \A k \in ListsOf(p) : ReportsNoneActive(calls[k].reply) )
              => /\ StartCount(p) = Cardinality(Qualifying(p))
                 /\ \A i \in Qualifying(p) : StartCountFor(p, i) = 1
        /\ ( /\ pc[p] = "done"
             /\ event[p] = [Records |-> <<[eventName |-> ObjectCreatedPut, s3 |-> S3Entity]>>]
             /\ \A k \in ListsOf(p) :
                   calls[k].reply = [ingestionJobSummaries |-> <<>>]
             /\ \A k \in StartsOf(p) : ~LacksJobId(calls[k].reply) )
              => /\ status[p] = 200
                 /\ Cardinality(StartsOf(p)) = 1
                 /\ \A k \in StartsOf(p) :
                       /\ calls[k].req.knowledgeBaseId = "${knowledge_base_id}"
                       /\ calls[k].req.dataSourceId = "${data_source_id}"
\* Two create/delete notifications, each finding only a finished job, two starts.
C3_Witness ==
    /\ pc[1] = "done" /\ status[1] = 200
    /\ Cardinality(Qualifying(1)) = 2
    /\ \A k \in ListsOf(1) :
          /\ ReportsNoneActive(calls[k].reply)
          /\ calls[k].reply.ingestionJobSummaries # <<>>
    /\ Cardinality(StartsOf(1)) = 2

\* ------------------------------------------------------------------- C4
\* C4: when list_ingestion_jobs fails, is_ingestion_running returns False and
\* the start request for that notification is issued; an invocation returns 500
\* only where its event has no 'Records', its current record is malformed, or
\* its last start reply lacks the job id, never because a list call failed.
LastCallOf(p) ==
    LET mine == { k \in DOMAIN calls : calls[k].inv = p } IN
    CHOOSE k \in mine : \A j \in mine : j <= k
C4_ListFailureFailsOpen ==
    \A p \in Inv :
        /\ \A k \in ListsOf(p) :
              "exception" \in DOMAIN calls[k].reply
                  => /\ calls[k].ret = FALSE
                     /\ StartCountFor(p, calls[k].idx) = 1
        /\ status[p] = 500
              => \/ "Records" \notin DOMAIN event[p]
                 \/ /\ idx[p] \in DOMAIN event[p].Records
                    /\ ~WellFormed(event[p].Records[idx[p]])
                 \/ /\ StartsOf(p) # {}
                    /\ IsStart(calls[LastCallOf(p)])
                    /\ LacksJobId(calls[LastCallOf(p)].reply)
\* A failed list call, its start, and calls for the next notification, ending 200.
C4_Witness ==
    /\ pc[1] = "done" /\ status[1] = 200
    /\ \E k \in ListsOf(1), j \in StartsOf(1), n \in ListsOf(1) :
          /\ "exception" \in DOMAIN calls[k].reply
          /\ calls[j].idx = calls[k].idx
          /\ calls[n].idx > calls[k].idx

\* ------------------------------------------------------------------- C5
\* C5: when the start call fails, start_ingestion_job returns None and the
\* invocation goes on to the next notification; it then returns 200 with the
\* whole batch handled, unless a later notification raises an unexpected error.
C5_StartFailureDoesNotAbort ==
    \A p \in Inv : \A k \in StartsOf(p) :
        "exception" \in DOMAIN calls[k].reply
            => /\ calls[k].ret = [py |-> "None"]
               /\ idx[p] > calls[k].idx
               /\ pc[p] = "done"
                     => \/ /\ status[p] = 200
                           /\ idx[p] = Len(event[p].Records) + 1
                        \/ /\ status[p] = 500
                           /\ idx[p] \in DOMAIN event[p].Records
                           /\ \/ ~WellFormed(event[p].Records[idx[p]])
                              \/ LacksJobId(calls[LastCallOf(p)].reply)
\* A failed start for the first notification, calls for the second, ending 200.
C5_Witness ==
    /\ pc[1] = "done" /\ status[1] = 200
    /\ \E k \in StartsOf(1), n \in ListsOf(1) :
          /\ "exception" \in DOMAIN calls[k].reply
          /\ calls[n].idx > calls[k].idx

\* ------------------------------------------------------------------- C6
\* C6: an invocation that has returned returned 200 or 500; 200 exactly when no
\* unexpected error arose (the event has 'Records', every record is well
\* formed, every start reply that names a job names its id), and then after the
\* whole batch; 500 at the notification k where the error arose, with no remote
\* call for a later notification, none for k itself when k's record is
\* malformed, and none left in flight.
UnexpectedError(p) ==
    \/ "Records" \notin DOMAIN event[p]
    \/ \E i \in DOMAIN event[p].Records : ~WellFormed(event[p].Records[i])
    \/ \E k \in StartsOf(p) : LacksJobId(calls[k].reply)
C6_StatusReflectsUnexpectedError ==
    \A p \in Inv :
        pc[p] = "done"
            => /\ status[p] \in {200, 500}
               /\ (status[p] = 200) = ~UnexpectedError(p)
               /\ { m \in pending : m.inv = p } = {}
               /\ status[p] = 200 => idx[p] = Len(event[p].Records) + 1
               /\ (status[p] = 500 /\ "Records" \in DOMAIN event[p])
                     => /\ idx[p] \in DOMAIN event[p].Records
                        /\ \A k \in DOMAIN calls :
                              calls[k].inv = p => calls[k].idx <= idx[p]
                        /\ \/ /\ ~WellFormed(event[p].Records[idx[p]])
                              /\ \A k \in DOMAIN calls :
                                    calls[k].inv = p => calls[k].idx < idx[p]
                           \/ /\ WellFormed(event[p].Records[idx[p]])
                              /\ IsStart(calls[LastCallOf(p)])
                              /\ calls[LastCallOf(p)].idx = idx[p]
                              /\ LacksJobId(calls[LastCallOf(p)].reply)
\* A create/delete notification with its calls, then a malformed record: 500.
C6_Witness ==
    /\ pc[1] = "done" /\ status[1] = 500
    /\ idx[1] = 2
    /\ ~WellFormed(event[1].Records[2])
    /\ StartsOf(1) # {}

\* ------------------------------------------------------------------- C7
\* C7: for a reply of list_ingestion_jobs that succeeded, every summary of which
\* carries its status and its job id, is_ingestion_running returns True exactly
\* when some summary, at whatever position, is STARTING or IN_PROGRESS.
ProbeSummaries == IF "ingestionJobSummaries" \in DOMAIN probe
                  THEN probe.ingestionJobSummaries ELSE <<>>
ProbeWellFormed ==
    /\ "exception" \notin DOMAIN probe
    /\ \A k \in DOMAIN ProbeSummaries :
          DOMAIN ProbeSummaries[k] = {"ingestionJobId", "status"}
C7_RunningIffSomeActiveSummary ==
    (verdict # <<>> /\ ProbeWellFormed)
        => verdict[1] = (\E k \in DOMAIN ProbeSummaries :
                            ProbeSummaries[k].status \in {"STARTING", "IN_PROGRESS"})
\* True for five summaries of which only the last is running.
C7_Witness ==
    /\ verdict = <<TRUE>>
    /\ ProbeWellFormed
    /\ Len(ProbeSummaries) = 5
    /\ ProbeSummaries[5].status = "STARTING"
    /\ \A k \in 1..4 : ProbeSummaries[k].status \in {"COMPLETE", "FAILED", "STOPPED"}

\* ------------------------------------------------------------------- C8
\* The jobs the service held before any invocation began: all but those the
\* answered start calls created.
CreatedCount ==
    Cardinality({ k \in DOMAIN calls :
                    /\ IsStart(calls[k])
                    /\ "ingestionJob" \in DOMAIN calls[k].reply })
Preexisting == { k \in DOMAIN jobs : k > CreatedCount }
\* Every reply p got so far is an error or a response of the documented shape.
RepliesAsDocumented(p) ==
    \A k \in DOMAIN calls :
        calls[k].inv = p
            => \/ "exception" \in DOMAIN calls[k].reply
               \/ IsList(calls[k]) /\ Succeeded(calls[k].reply)
               \/ /\ IsStart(calls[k])
                  /\ "ingestionJob" \in DOMAIN calls[k].reply
                  /\ ~LacksJobId(calls[k].reply)
ListBefore(c) ==
    CHOOSE b \in DOMAIN calls :
        /\ IsList(calls[b])
        /\ calls[b].inv = calls[c].inv
        /\ calls[b].idx = calls[c].idx
JobWithId(id) == { k \in DOMAIN jobs : jobs[k].ingestionJobId = id }
StartedActiveJob(c) ==
    /\ IsStart(calls[c])
    /\ "ingestionJob" \in DOMAIN calls[c].reply
    /\ "ingestionJobId" \in DOMAIN calls[c].reply.ingestionJob
    /\ \E k \in JobWithId(calls[c].reply.ingestionJob.ingestionJobId) :
          jobs[k].status \in {"STARTING", "IN_PROGRESS"}
\* C9: the guard is a check followed by an act. Two jobs the handler started are
\* active at once only if the list call that let the second start through was
\* answered before the first start was (the two overlapped), or failed or came
\* back without summaries; and that overlap of two invocations is reachable
\* (the witness).
C9_TwoActiveJobsOnlyByOverlapOrFailOpen ==
    \A a, c \in DOMAIN calls :
        (a < c /\ StartedActiveJob(a) /\ StartedActiveJob(c))
            => \/ ListBefore(c) < a
               \/ ~Succeeded(calls[ListBefore(c)].reply)
\* Both invocations were told, by a list call that succeeded, that no job is
\* running; both started one; both jobs are active.
C9_Witness ==
    \E a, c \in DOMAIN calls :
        /\ a < c
        /\ calls[a].inv # calls[c].inv
        /\ StartedActiveJob(a) /\ StartedActiveJob(c)
        /\ \A k \in DOMAIN calls :
              IsList(calls[k])
                  => /\ ReportsNoneActive(calls[k].reply)
                     /\ calls[k].ret = FALSE
        /\ Cardinality({ k \in DOMAIN jobs :
                           jobs[k].status \in {"STARTING", "IN_PROGRESS"} }) = 2

\* ------------------------------------------------------------------ C10
\* C10: the remote calls of one invocation are answered in the order of its
\* notifications, the list call of a notification before its start call; a call
\* in flight belongs to a notification no earlier than any answered call; and
\* an invocation has at most one call in flight.
C10_CallsFollowInputOrder ==
    \A p \in Inv :
        /\ \A a, b \in DOMAIN calls :
              (a < b /\ calls[a].inv = p /\ calls[b].inv = p)
                  => \/ calls[a].idx < calls[b].idx
                     \/ /\ calls[a].idx = calls[b].idx
                        /\ IsList(calls[a]) /\ IsStart(calls[b])
        /\ \A m \in pending : \A a \in DOMAIN calls :
              (m.inv = p /\ calls[a].inv = p)
                  => \/ calls[a].idx < m.idx
                     \/ /\ calls[a].idx = m.idx
                        /\ IsList(calls[a]) /\ IsStart(m)
        /\ Cardinality({ m \in pending : m.inv = p }) <= 1
\* List and start for the first notification, then list and start for the second.
C10_Witness ==
    /\ pc[1] = "done"
    /\ Len(calls) = 4
    /\ IsList(calls[1]) /\ calls[1].idx = 1
    /\ IsStart(calls[2]) /\ calls[2].idx = 1
    /\ IsList(calls[3]) /\ calls[3].idx = 2
    /\ IsStart(calls[4]) /\ calls[4].idx = 2

\* ------------------------------------------------------------------ C11
\* The list and start requests p has issued so far for its i-th notification.
ListCountFor(p, i) ==
    Cardinality({ k \in ListsOf(p) : calls[k].idx = i })
        + Cardinality({ m \in pending : m.inv = p /\ IsList(m) /\ m.idx = i })
\* The notifications of p's batch the loop is through with.
Handled(p) ==
    IF "Records" \in DOMAIN event[p]
    THEN { i \in DOMAIN event[p].Records : i < idx[p] }
    ELSE {}
\* C11: no retries. For each notification of its batch an invocation issues at
\* most one list request and at most one start request, whatever either call
\* answered; for a create/delete notification it is through with it has issued
\* exactly one list request, and for any other notification none.
C11_NoRetries ==
    \A p \in Inv :
        /\ \A k \in DOMAIN calls :
              calls[k].inv = p
                  => /\ ListCountFor(p, calls[k].idx) = 1
                     /\ StartCountFor(p, calls[k].idx) <= 1
        /\ \A m \in pending :
              m.inv = p
                  => /\ ListCountFor(p, m.idx) = 1
                     /\ StartCountFor(p, m.idx) <= 1
        /\ \A i \in Handled(p) :
              ListCountFor(p, i) = (IF i \in Qualifying(p) THEN 1 ELSE 0)
\* An invocation that returned after both calls failed for one notification,
\* each of them issued once.
C11_Witness ==
    /\ pc[1] = "done"
    /\ \E a \in ListsOf(1), c \in StartsOf(1) :
          /\ calls[a].idx = calls[c].idx
          /\ "exception" \in DOMAIN calls[a].reply
          /\ "exception" \in DOMAIN calls[c].reply
          /\ ListCountFor(1, calls[a].idx) = 1
          /\ StartCountFor(1, calls[a].idx) = 1

\* ------------------------------------------------------------------ C12
\* A start call whose reply names the job it started.
StartedJob(c) ==
    /\ IsStart(calls[c])
    /\ "ingestionJob" \in DOMAIN calls[c].reply
    /\ "ingestionJobId" \in DOMAIN calls[c].reply.ingestionJob
\* C12 as claimed: once an invocation has returned, for every create/delete
\* notification it handled a job was started by a start call made for that
\* notification or a later one.
C12_AsClaimed ==
    \A p \in Inv :
        pc[p] = "done"
            => \A i \in Handled(p) \cap Qualifying(p) :
                  \E c \in StartsOf(p) : calls[c].idx >= i /\ StartedJob(c)
\* C12: for every create/delete notification an invocation is through with,
\* either the list call for it reported a job STARTING or IN_PROGRESS and no
\* start request was issued for it, or is_ingestion_running returned False and
\* one start request was issued for it; where that request succeeded, the job
\* it names is in the service and was not there before the invocation.
C12_StartRequestedUnlessJobReported ==
    \A p \in Inv :
        \A i \in Handled(p) \cap Qualifying(p) :
            \E a \in ListsOf(p) :
                /\ calls[a].idx = i
                /\ \/ /\ calls[a].ret = TRUE
                      /\ ReportsActive(calls[a].reply)
                      /\ StartCountFor(p, i) = 0
                   \/ /\ calls[a].ret = FALSE
                      /\ \E c \in StartsOf(p) :
                            /\ calls[c].idx = i
                            /\ c > a
                            /\ StartedJob(c)
                                  => LET id == calls[c].reply.ingestionJob.ingestionJobId
                                     IN  /\ JobWithId(id) # {}
                                         /\ JobWithId(id) \cap Preexisting = {}
\* An invocation that returned 200 after skipping its first notification, for
\* a job reported active, and starting a job for its second.
C12_Witness ==
    /\ pc[1] = "done" /\ status[1] = 200
    /\ {1, 2} \subseteq Qualifying(1)
    /\ StartCountFor(1, 1) = 0
    /\ \E a \in ListsOf(1) : calls[a].idx = 1 /\ ReportsActive(calls[a].reply)
    /\ \E c \in StartsOf(1) : calls[c].idx = 2 /\ StartedJob(c)

\* ----------------------------------------------------------- the object key
\* Line 26, unquote_plus(record['s3']['object']['key']): strings are sequences
\* of characters. The characters keys are made of here: letters that are also
\* hexadecimal digits, the plus sign, the percent sign and two more digits.
MaxKeyLen == 5
KeyChars == {"a", "b", "+", "%", "2", "B"}
Keys == SeqsUpTo(KeyChars, MaxKeyLen)
\* U+FFFD, which bytes.decode(errors='replace') puts for an invalid byte.
Replacement == "U+FFFD"
\* The code points of the ASCII characters that occur, and chr().
Ord == [c \in {"a", "b", "+", "%", "2", "B", " ", "*", "\""} |->
          CASE c = "a" -> 97 [] c = "b" -> 98 [] c = "+" -> 43 [] c = "%" -> 37
            [] c = "2" -> 50 [] c = "B" -> 66 [] c = " " -> 32 [] c = "*" -> 42
            [] c = "\"" -> 34]
Chr(n) == CHOOSE c \in DOMAIN Ord : Ord[c] = n
\* The hexadecimal digits and their values (the keys of _hextobyte).
HexValue == [c \in {"2", "a", "b", "B"} |->
               CASE c = "2" -> 2 [] c = "a" -> 10 [] c = "b" -> 11 [] c = "B" -> 11]
IsHexPair(item) ==
    Len(item) >= 2 /\ item[1] \in DOMAIN HexValue /\ item[2] \in DOMAIN HexValue
\* str.encode: the bytes of an ASCII string.
RECURSIVE Encode(_)
Encode(string) ==
    IF string = <<>> THEN <<>> ELSE <<Ord[Head(string)]>> \o Encode(Tail(string))
\* bytes.decode('utf-8', 'replace'): an ASCII byte is its character; a byte in
\* 0x80..0xBF that follows no lead byte is invalid. (The digits above give no
\* byte from 0xC0 on, so no multi-byte sequence begins.)
RECURSIVE Utf8Decode(_)
Utf8Decode(bytes) ==
    IF bytes = <<>> THEN <<>>
    ELSE <<IF Head(bytes) < 128 THEN Chr(Head(bytes)) ELSE Replacement>>
             \o Utf8Decode(Tail(bytes))
\* str.replace(old, new) for single characters.
RECURSIVE Replace(_, _, _)
Replace(string, old, new) ==
    IF string = <<>> THEN <<>>
    ELSE <<IF Head(string) = old THEN new ELSE Head(string)>>
             \o Replace(Tail(string), old, new)
\* bytes.split(sep): the pieces between the occurrences of sep.
RECURSIVE Split(_, _)
Split(bytes, sep) ==
    IF \A k \in DOMAIN bytes : bytes[k] # sep THEN <<bytes>>
    ELSE LET k == CHOOSE j \in DOMAIN bytes :
                      bytes[j] = sep /\ \A h \in 1..(j - 1) : bytes[h] # sep
         IN  <<SubSeq(bytes, 1, k - 1)>> \o Split(SubSeq(bytes, k + 1, Len(bytes)), sep)
\* unquote_to_bytes: the string is split at '%'; a piece that begins with two
\* hexadecimal digits has them replaced by their byte, any other piece gets
\* its '%' back.
RECURSIVE UnquoteItems(_, _)
UnquoteItems(bits, i) ==
    IF i > Len(bits) THEN <<>>
    ELSE LET item == bits[i]
             hex == <<Chr(item[1]), Chr(item[2])>>
         IN  (IF Len(item) >= 2 /\ IsHexPair(hex)
              THEN <<16 * HexValue[hex[1]] + HexValue[hex[2]]>>
                     \o SubSeq(item, 3, Len(item))
              ELSE <<Ord["%"]>> \o item)
             \o UnquoteItems(bits, i + 1)
unquote_to_bytes(string) ==
    LET bits == Split(Encode(string), Ord["%"])
    IN  bits[1] \o UnquoteItems(bits, 2)
\* unquote, for an ASCII string.
unquote(string) ==
    IF \A k \in DOMAIN string : string[k] # "%" THEN string
    ELSE Utf8Decode(unquote_to_bytes(string))
\* unquote_plus; and, before it, a faulty variant that leaves '+' alone.
unquote_only(string) == unquote(string)
unquote_plus(string) == unquote(Replace(string, "+", " "))

\* unquote_plus on its own, on every key.
InitKey ==
    /\ probe \in Keys
    /\ verdict = <<>>
    /\ event = [p \in Inv |-> NoEvent]
    /\ pc = [p \in Inv |-> "idle"]
    /\ idx = [p \in Inv |-> 1]
    /\ status = [p \in Inv |-> 0]
    /\ pending = {}
    /\ calls = <<>>
    /\ jobs = <<>>
DecodeObjectKey ==
    /\ verdict = <<>>
    /\ verdict' = <<unquote_plus(probe)>>
    /\ UNCHANGED <<event, pc, idx, status, pending, calls, jobs, probe>>
SpecKey == InitKey /\ [][DecodeObjectKey]_vars

\* ------------------------------------------------------------------ C13
\* The character a percent-encoded sequence '%xy' stands for.
EscapedChar(x, y) ==
    CASE <<x, y>> = <<"2", "B">> -> "+"
      [] <<x, y>> = <<"2", "b">> -> "+"
      [] <<x, y>> = <<"2", "a">> -> "*"
      [] <<x, y>> = <<"2", "2">> -> "\""
      [] OTHER -> Replacement
IsHexDigit(c) == c \in {"2", "a", "b", "B"}
\* The key read from left to right: each '%' that two hexadecimal digits follow
\* is replaced, with them, by the character they encode, each '+' by `plus`,
\* and every other character is kept.
RECURSIVE Literal(_, _)
Literal(key, plus) ==
    IF key = <<>> THEN <<>>
    ELSE IF key[1] = "%" /\ Len(key) >= 3 /\ IsHexDigit(key[2]) /\ IsHexDigit(key[3])
         THEN <<EscapedChar(key[2], key[3])>> \o Literal(SubSeq(key, 4, Len(key)), plus)
         ELSE <<IF key[1] = "+" THEN plus ELSE key[1]>> \o Literal(Tail(key), plus)
\* C13 as claimed: the key the handler uses is the key with each
\* percent-encoded sequence replaced by its character and every other
\* character, '+' among them, left as it is.
C13_AsClaimed ==
    verdict # <<>> => verdict[1] = Literal(probe, "+")
\* C13: the key the handler uses is the key with each percent-encoded sequence
\* ('%' and two hexadecimal digits) replaced by the character it encodes, each
\* '+' replaced by a space, and every other character left as it is, a '%'
\* that no two hexadecimal digits follow included.
C13_KeyIsDecodedWithPlusAsSpace ==
    verdict # <<>> => verdict[1] = Literal(probe, " ")
\* 'a+%2B' has been decoded to 'a +'.
C13_Witness ==
    /\ probe = <<"a", "+", "%", "2", "B">>
    /\ verdict = << <<"a", " ", "+">> >>

\* ------------------------------------------------------------------ C14
\* The positions in `calls` of p's answered calls before position c.
EarlierCallsOf(p, c) == { k \in DOMAIN calls : calls[k].inv = p /\ k < c }
\* The call at position b is a list call for notification i that failed or
\* returned no job with status STARTING or IN_PROGRESS.
ClearedStart(b, i) ==
    /\ IsList(calls[b])
    /\ calls[b].idx = i
    /\ \/ "exception" \in DOMAIN calls[b].reply
       \/ ReportsNoneActive(calls[b].reply)
\* C14: every start request is guarded. In an invocation's sequence of remote
\* calls each start request, answered or in flight, comes directly after a
\* list call made for the same notification that failed or returned no job
\* with status STARTING or IN_PROGRESS.
C14_StartFollowsClearingList ==
    \A p \in Inv :
        /\ \A c \in StartsOf(p) :
              /\ EarlierCallsOf(p, c) # {}
              /\ LET b == CHOOSE k \in EarlierCallsOf(p, c) :
                              \A j \in EarlierCallsOf(p, c) : j <= k
                 IN  ClearedStart(b, calls[c].idx)
        /\ \A m \in PendingStarts(p) :
              /\ ListsOf(p) # {}
              /\ ClearedStart(LastCallOf(p), m.idx)
\* An invocation that returned after two start requests, one behind a list
\* call that failed and one behind a list call that returned no active job.
C14_Witness ==
    /\ pc[1] = "done"
    /\ \E a, c \in StartsOf(1) :
          /\ a < c
          /\ "exception" \in DOMAIN calls[a - 1].reply
          /\ IsList(calls[c - 1]) /\ ReportsNoneActive(calls[c - 1].reply)

\* ------------------------------------------------------------------ C15
\* One invocation against a service that may also answer a list request with
\* a response of another shape than the documented one. The handler runs on
\* and every remote call returns or raises: a step of the invocation that
\* stays possible is taken. The service need not ever advance a job.
NextAnyReply ==
    \/ \E p \in Inv :
        \/ Return200(p)
        \/ RaiseKeyError(p)
        \/ SkipRecord(p)
        \/ CallListIngestionJobs(p)
        \/ ListIngestionJobsReturns(p)
        \/ ListIngestionJobsReturnsMalformed(p)
        \/ StartIngestionJobReturns(p)
    \/ JobAdvances
InvocationStep ==
    \E p \in Inv :
        \/ Return200(p)
        \/ RaiseKeyError(p)
        \/ SkipRecord(p)
        \/ CallListIngestionJobs(p)
        \/ ListIngestionJobsReturns(p)
        \/ ListIngestionJobsReturnsMalformed(p)
        \/ StartIngestionJobReturns(p)
\* The batch is of uploads, restores and records lacking their 's3' entry (or
\* the event is the test event); the service holds no job, or one in progress.
AnyReplyEvents ==
    { [Records |-> rs] : rs \in SeqsUpTo(RaceRecords \cup MalformedRecords, MaxBatch) }
        \cup {TestEvent}
InitAnyReply ==
    /\ event \in [Inv -> AnyReplyEvents]
    /\ event[2] = NoEvent
    /\ pc = [p \in Inv |-> IF p = 1 THEN "loop" ELSE "idle"]
    /\ idx = [p \in Inv |-> 1]
    /\ status = [p \in Inv |-> 0]
    /\ pending = {}
    /\ calls = <<>>
    /\ jobs \in {<<>>, NumberJobs(<<"IN_PROGRESS">>)}
    /\ probe = NoProbe
    /\ verdict = <<>>
SpecAnyReply == InitAnyReply /\ [][NextAnyReply]_vars /\ WF_vars(InvocationStep)

\* C15: whatever the batch and whatever the service answers (a response, an
\* error, or a response of another shape, to either call), the invocation
\* comes to its end and has then returned a result with status 200 or 500.
C15_TerminatesWith200Or500 ==
    <>[](pc[1] = "done" /\ status[1] \in {200, 500})
\* An invocation that returned 200 although a list request was answered by a
\* response without summaries' statuses and a start request by an error.
C15_Witness ==
    /\ pc[1] = "done" /\ status[1] = 200
    /\ \E a \in ListsOf(1) :
          /\ Succeeded(calls[a].reply)
          /\ \E k \in DOMAIN calls[a].reply.ingestionJobSummaries :
                "status" \notin DOMAIN calls[a].reply.ingestionJobSummaries[k]
    /\ \E c \in StartsOf(1) : "exception" \in DOMAIN calls[c].reply

\* ------------------------------------------------------------------ C16
\* No call of p failed so far: every reply is a response of the documented
\* shape.
NoRemoteFailure(p) ==
    /\ RepliesAsDocumented(p)
    /\ \A k \in DOMAIN calls : calls[k].inv = p => "exception" \notin DOMAIN calls[k].reply
ActiveJobs == { k \in DOMAIN jobs : jobs[k].status \in {"STARTING", "IN_PROGRESS"} }
\* C16: in a single invocation none of whose calls failed, against a service
\* that held at most one job at the start, never more than one job is active;
\* and between two start requests of the invocation that each started a job
\* lies a list reply that reports no active job: the handler starts no second
\* job while the one it started earlier is still active.
C16_OneActiveJobWithoutFailure ==
    NoRemoteFailure(1)
        => /\ Cardinality(ActiveJobs) <= 1
           /\ \A a, c \in StartsOf(1) :
                 (a < c /\ StartedJob(a) /\ StartedJob(c))
                     => \E b \in ListsOf(1) :
                           /\ a < b /\ b < c
                           /\ ReportsNoneActive(calls[b].reply)
\* An invocation none of whose calls failed has returned; the job it started
\* for its first notification is still active and was reported for its second,
\* for which it issued no start request.
C16_Witness ==
    /\ pc[1] = "done" /\ status[1] = 200 /\ NoRemoteFailure(1)
    /\ \E c \in StartsOf(1) : calls[c].idx = 1 /\ StartedActiveJob(c)
    /\ \E b \in ListsOf(1) : calls[b].idx = 2 /\ ReportsActive(calls[b].reply)
    /\ StartCountFor(1, 2) = 0
    /\ Cardinality(ActiveJobs) = 1

\* ------------------------------------------------------------------ C17
\* One invocation on a batch whose records differ in bucket and object key as
\* well as in event name (uploads and restores), or on the test event. The
\* service holds no job, or one that is in progress.
S3Entities ==
    { [bucket |-> [name |-> b], object |-> [key |-> k]] :
        b \in {"b", "other"}, k \in {"docs/f.txt", "a%2Bb.txt"} }
ObjectRecords ==
    { [eventName |-> n, s3 |-> e] :
        n \in {ObjectCreatedPut, ObjectRestorePost}, e \in S3Entities }
ObjectEvents ==
    { [Records |-> rs] : rs \in SeqsUpTo(ObjectRecords, MaxBatch) } \cup {TestEvent}
InitObjects ==
    /\ event \in [Inv -> ObjectEvents]
    /\ event[2] = NoEvent
    /\ pc = [p \in Inv |-> IF p = 1 THEN "loop" ELSE "idle"]
    /\ idx = [p \in Inv |-> 1]
    /\ status = [p \in Inv |-> 0]
    /\ pending = {}
    /\ calls = <<>>
    /\ jobs \in {<<>>, NumberJobs(<<"IN_PROGRESS">>)}
    /\ probe = NoProbe
    /\ verdict = <<>>
SpecObjects == InitObjects /\ [][Next]_vars

\* What a batch and a run are made of, bucket names and object keys apart: the
\* event names of p's batch, and the replies p got, in order.
NamesOf(p) == [i \in DOMAIN event[p].Records |-> event[p].Records[i].eventName]
RECURSIVE RepliesFrom(_, _)
RepliesFrom(p, k) ==
    IF k > Len(calls) THEN <<>>
    ELSE (IF calls[k].inv = p THEN <<calls[k].reply>> ELSE <<>>) \o RepliesFrom(p, k + 1)
\* A request as sent: its operation and the pair it addresses.
Addressed(op) ==
    [op |-> op, knowledgeBaseId |-> KnowledgeBaseId, dataSourceId |-> DataSourceId]
AsSent(req) ==
    [op |-> req.op, knowledgeBaseId |-> req.knowledgeBaseId,
     dataSourceId |-> req.dataSourceId]
\* The requests p has issued, in order, each with the notification it is for.
RECURSIVE RequestsFrom(_, _)
RequestsFrom(p, k) ==
    IF k > Len(calls)
    THEN IF \E m \in pending : m.inv = p
         THEN LET m == CHOOSE m \in pending : m.inv = p
              IN  << [idx |-> m.idx, req |-> AsSent(m.req)] >>
         ELSE <<>>
    ELSE (IF calls[k].inv = p
          THEN << [idx |-> calls[k].idx, req |-> AsSent(calls[k].req)] >>
          ELSE <<>>) \o RequestsFrom(p, k + 1)
\* The requests and the status code that the event names and the replies alone
\* determine, from the i-th notification and the r-th reply on: a list request
\* per create/delete notification, a start request behind every list reply
\* that reports no active job, 500 behind a start reply without job id, 200 at
\* the end of the batch, and no status (0) while a reply is outstanding.
RECURSIVE Determined(_, _, _, _)
Determined(names, replies, i, r) ==
    IF i > Len(names) THEN [requests |-> <<>>, status |-> 200]
    ELSE IF ~CreateOrDelete(names[i]) THEN Determined(names, replies, i + 1, r)
    ELSE LET list == [idx |-> i, req |-> Addressed("list_ingestion_jobs")]
             start == [idx |-> i, req |-> Addressed("start_ingestion_job")]
         IN  IF r > Len(replies) THEN [requests |-> <<list>>, status |-> 0]
             ELSE IF ReportsActive(replies[r])
                  THEN LET rest == Determined(names, replies, i + 1, r + 1)
                       IN  [requests |-> <<list>> \o rest.requests, status |-> rest.status]
             ELSE IF r + 1 > Len(replies)
                  THEN [requests |-> <<list, start>>, status |-> 0]
             ELSE IF LacksJobId(replies[r + 1])
                  THEN [requests |-> <<list, start>>, status |-> 500]
             ELSE LET rest == Determined(names, replies, i + 1, r + 2)
                  IN  [requests |-> <<list, start>> \o rest.requests, status |-> rest.status]
WellFormedBatch(p) ==
    /\ "Records" \in DOMAIN event[p]
    /\ \A i \in DOMAIN event[p].Records : event[p].Records[i] \in ObjectRecords
\* C17: for a well-formed batch, the requests an invocation has issued (each
\* addressed to the one configured pair) and the status code it returns are
\* those determined by the batch's event names and the replies it got; bucket
\* names and object keys have no part in them, so that two batches that agree
\* on their event names get, against the same replies, the same requests and
\* the same status code. (Between two requests, when the loop is about to
\* issue the next list request, that one request is still to come.)
C17_CallsDependOnNamesAndRepliesOnly ==
    \A p \in Inv :
        (WellFormedBatch(p) /\ pc[p] # "idle")
            => LET d == Determined(NamesOf(p), RepliesFrom(p, 1), 1, 1)
               IN  /\ pc[p] # "loop" => RequestsFrom(p, 1) = d.requests
                   /\ pc[p] = "loop"
                         => \/ RequestsFrom(p, 1) = d.requests
                            \/ /\ d.status = 0
                               /\ RequestsFrom(p, 1)
                                     = SubSeq(d.requests, 1, Len(d.requests) - 1)
                   /\ pc[p] = "done" => status[p] = d.status
\* An invocation that returned 200 after a start request for each of two
\* uploads to different buckets under different keys.
C17_Witness ==
    /\ pc[1] = "done" /\ status[1] = 200
    /\ WellFormedBatch(1)
    /\ Len(event[1].Records) = 2
    /\ event[1].Records[1].s3.bucket.name # event[1].Records[2].s3.bucket.name
    /\ event[1].Records[1].s3.object.key # event[1].Records[2].s3.object.key
    /\ StartCountFor(1, 1) = 1 /\ StartCountFor(1, 2) = 1
====
